---------------------------- MODULE Spec2Model ----------------------------
(***************************************************************************)
(* Model of the sonnet search engine of part8: span finding, per-sonnet    *)
(* search, combination of two search results, ANSI highlighting and the    *)
(* multi-word AND/OR fold of the command loop.                             *)
(*                                                                         *)
(* Strings are sequences of one-character strings; offsets are 0-based as  *)
(* in Python, so text[i:j] is SubSeq(text, i+1, j).  A span is the tuple   *)
(* <<start, end>>.  Python lists that are reachable through more than one  *)
(* reference (the span lists of line matches and titles) live in `heap`    *)
(* and are named by their address, so that list.extend through one         *)
(* reference is seen through every other reference.                        *)
(***************************************************************************)
EXTENDS Integers, Sequences, FiniteSets, TLC

VARIABLES
    pc,                 \* position of the operation or of the command loop
    heap,               \* address -> list of spans (the span list objects)
    text, pattern,      \* find_spans(text, pattern) / ansi_highlight(text, spans)
    spans,              \* the list find_spans returns / ansi_highlight receives
    marked,             \* the string ansi_highlight returns
    sonnet, query,      \* search_sonnet(sonnet, query)
    pool,               \* the search results alive in a combine scenario
    result1, result2,   \* combine_results(result1, result2): indexes into pool
    sonnets,            \* main: the loaded sonnets
    search_mode,        \* main: config.search_mode
    words, w,           \* main: raw.split() and the index of the current word
    results,            \* main: results of the current word, one per sonnet
    combined_results,   \* main: the accumulator list
    i,                  \* main: index of the inner loop (0-based)
    matched             \* print_results: the results with matches > 0

vars == <<pc, heap, text, pattern, spans, marked, sonnet, query, pool,
          result1, result2, sonnets, search_mode, words, w, results,
          combined_results, i, matched>>

(***************************************************************************)
(* Bounds of the model.                                                    *)
(***************************************************************************)
MaxTextLen == 4
MaxPatternLen == 2

\* Lowercase letters, and the uppercase letters str.lower() maps onto them.
LowerChars == {"a", "b"}
UpperChars == {"A"}
Chars == LowerChars \cup UpperChars

TextsOver(alphabet, n) == UNION {[1..k -> alphabet] : k \in 0..n}

\* str.lower(), character by character
LowerChar(c) == IF c = "A" THEN "a" ELSE c
Lower(s) == [k \in 1..Len(s) |-> LowerChar(s[k])]

\* Python slice s[a:b] for 0 <= a
Slice(s, a, b) == SubSeq(s, a + 1, IF b > Len(s) THEN Len(s) ELSE b)

(***************************************************************************)
(* find_spans                                                              *)
(***************************************************************************)
RECURSIVE find_spans_loop(_, _, _, _)
find_spans_loop(t, p, k, acc) ==
    IF k >= Len(t) - Len(p) + 1
    THEN acc
    ELSE find_spans_loop(t, p, k + 1,
            IF Slice(t, k, k + Len(p)) = p
            THEN Append(acc, <<k, k + Len(p)>>)
            ELSE acc)

\* A scan that resumes after the end of each match, as str.find-based loops
\* do: overlapping occurrences are lost.
RECURSIVE find_spans_skip_loop(_, _, _, _)
find_spans_skip_loop(t, p, k, acc) ==
    IF k >= Len(t) - Len(p) + 1
    THEN acc
    ELSE IF Slice(t, k, k + Len(p)) = p
         THEN find_spans_skip_loop(t, p, k + Len(p), Append(acc, <<k, k + Len(p)>>))
         ELSE find_spans_skip_loop(t, p, k + 1, acc)

find_spans_nonoverlapping(t, p) ==
    IF p = <<>> THEN <<>> ELSE find_spans_skip_loop(t, p, 0, <<>>)

find_spans(t, p) ==
    IF p = <<>> THEN <<>> ELSE find_spans_loop(t, p, 0, <<>>)

(***************************************************************************)
(* Values the variables of the other operations hold while one operation   *)
(* is modelled on its own.                                                 *)
(***************************************************************************)
NoSonnet == [title |-> <<>>, lines |-> <<>>]

IdleStrings == text = <<>> /\ pattern = <<>> /\ spans = <<>> /\ marked = <<>>
IdleSearch == sonnet = NoSonnet /\ query = <<>>
IdleCombine == pool = <<>> /\ result1 = 0 /\ result2 = 0
IdleMain ==
    /\ sonnets = <<>> /\ search_mode = "AND" /\ words = <<>> /\ w = 0
    /\ results = <<>> /\ combined_results = <<>> /\ i = 0 /\ matched = <<>>

mainVars == <<sonnets, search_mode, words, w, results, combined_results, i, matched>>
combineVars == <<pool, result1, result2>>
searchVars == <<sonnet, query>>

(***************************************************************************)
(* Specification of find_spans on its own: the caller passes lowercased    *)
(* strings.                                                                *)
(***************************************************************************)
InitFindSpans ==
    /\ pc = "call"
    /\ heap = <<>>
    /\ text \in TextsOver(LowerChars, MaxTextLen)
    /\ pattern \in TextsOver(LowerChars, MaxPatternLen)
    /\ spans = <<>> /\ marked = <<>>
    /\ IdleSearch /\ IdleCombine /\ IdleMain

FindSpans ==
    /\ pc = "call"
    /\ spans' = find_spans(text, pattern)
    /\ pc' = "return"
    /\ UNCHANGED <<heap, text, pattern, marked, searchVars, combineVars, mainVars>>

SpecFindSpans == InitFindSpans /\ [][FindSpans]_vars

\* The offsets at which p occurs in t.
OccurrencesOf(p, t) ==
    {k \in 0..(Len(t) - Len(p)) : \A j \in 1..Len(p) : t[k + j] = p[j]}

\* C1: find_spans(text, pattern) is empty for the empty pattern; otherwise it
\* lists exactly the spans <<k, k + len(pattern)>> of the offsets k at which
\* pattern occurs in text, overlapping ones included, in strictly ascending
\* order of start, each with 0 <= start < end <= len(text).
C1_FindSpansExact ==
    pc = "return" =>
        /\ pattern = <<>> => spans = <<>>
        /\ pattern # <<>> =>
            /\ {spans[k] : k \in 1..Len(spans)}
                 = {<<o, o + Len(pattern)>> : o \in OccurrencesOf(pattern, text)}
            /\ \A k \in 1..(Len(spans) - 1) : spans[k][1] < spans[k + 1][1]
            /\ \A k \in 1..Len(spans) :
                 /\ 0 <= spans[k][1]
                 /\ spans[k][1] < spans[k][2]
                 /\ spans[k][2] <= Len(text)

\* Two occurrences of the pattern overlap and both are returned.
C1_Witness ==
    /\ pc = "return"
    /\ \E k \in 1..(Len(spans) - 1) : spans[k + 1][1] < spans[k][2]

(***************************************************************************)
(* The span list objects.  A search result is the record                   *)
(*   [title, title_spans, line_matches, matches]                           *)
(* whose title_spans is the address of a span list and whose line_matches  *)
(* is a sequence of line matches [line_no, text, spans], spans again an    *)
(* address.  The records themselves are held by value: the program never   *)
(* reaches a result or a line match record through two references at a     *)
(* time it assigns to one of its fields.                                   *)
(***************************************************************************)
Alloc(h, list) == Append(h, list)
NewAddr(h) == Len(h) + 1

\* A result with every address replaced by the list it names.
LineView(lm, h) == [line_no |-> lm.line_no, text |-> lm.text, spans |-> h[lm.spans]]
View(r, h) ==
    [title |-> r.title,
     title_spans |-> h[r.title_spans],
     line_matches |-> [k \in 1..Len(r.line_matches) |-> LineView(r.line_matches[k], h)],
     matches |-> r.matches]

RECURSIVE SumLens(_)
SumLens(lms) == IF lms = <<>> THEN 0 ELSE Len(Head(lms).spans) + SumLens(Tail(lms))

\* len(title_spans) + sum(len(lm.spans) for lm in line_matches), on a view
Recount(v) == Len(v.title_spans) + SumLens(v.line_matches)

(***************************************************************************)
(* search_sonnet / Sonnet.search_for                                       *)
(***************************************************************************)
\* the loop over enumerate(lines, start=1); st is [lms, heap]
RECURSIVE search_lines(_, _, _, _)
search_lines(lines, q, idx, st) ==
    IF idx > Len(lines)
    THEN st
    ELSE LET line_raw == lines[idx]
             found == find_spans(Lower(line_raw), q)
         IN  search_lines(lines, q, idx + 1,
                IF found # <<>>
                THEN [lms |-> Append(st.lms, [line_no |-> idx, text |-> line_raw,
                                              spans |-> NewAddr(st.heap)]),
                      heap |-> Alloc(st.heap, found)]
                ELSE st)

\* The query is used as typed: q = query instead of q = query.lower().
search_sonnet_raw_query(s, qry, h) ==
    LET title_spans == find_spans(Lower(s.title), qry)
        h1 == Alloc(h, title_spans)
        st == search_lines(s.lines, qry, 1, [lms |-> <<>>, heap |-> h1])
        total == Len(title_spans) + SumLens([k \in 1..Len(st.lms) |-> LineView(st.lms[k], st.heap)])
    IN  [result |-> [title |-> s.title, title_spans |-> NewAddr(h),
                     line_matches |-> st.lms, matches |-> total],
         heap |-> st.heap]

\* Returns [result, heap]: the result and the heap with its lists allocated.
search_sonnet(s, qry, h) ==
    LET q == Lower(qry)
        title_spans == find_spans(Lower(s.title), q)
        h1 == Alloc(h, title_spans)
        st == search_lines(s.lines, q, 1, [lms |-> <<>>, heap |-> h1])
        total == Len(title_spans) + SumLens([k \in 1..Len(st.lms) |-> LineView(st.lms[k], st.heap)])
    IN  [result |-> [title |-> s.title, title_spans |-> NewAddr(h),
                     line_matches |-> st.lms, matches |-> total],
         heap |-> st.heap]

(***************************************************************************)
(* Specification of one search: a sonnet built from the sample texts and   *)
(* a query.                                                                *)
(***************************************************************************)
MaxLines == 2
MaxQueryLen == 2

SampleTexts == { <<>>, <<"b">>, <<"A", "b">>, <<"a", "A", "a">> }
SampleLineLists == UNION {[1..k -> SampleTexts] : k \in 0..MaxLines}

InitSearch ==
    /\ pc = "call"
    /\ heap = <<>>
    /\ sonnet \in [title : SampleTexts, lines : SampleLineLists]
    /\ query \in TextsOver(Chars, MaxQueryLen)
    /\ IdleStrings /\ IdleCombine /\ IdleMain

Search ==
    /\ pc = "call"
    /\ LET r == search_sonnet(sonnet, query, heap)
       IN  /\ pool' = <<r.result>>
           /\ heap' = r.heap
    /\ pc' = "return"
    /\ UNCHANGED <<text, pattern, spans, marked, searchVars, result1, result2, mainVars>>

SpecSearch == InitSearch /\ [][Search]_vars

\* The lowercased pattern occurs in the lowercased text.
Matches(qry, t) == qry # <<>> /\ OccurrencesOf(Lower(qry), Lower(t)) # {}
NumOccurrences(qry, t) ==
    IF qry = <<>> THEN 0 ELSE Cardinality(OccurrencesOf(Lower(qry), Lower(t)))

RECURSIVE SumOccurrences(_, _)
SumOccurrences(qry, lines) ==
    IF lines = <<>> THEN 0
    ELSE NumOccurrences(qry, Head(lines)) + SumOccurrences(qry, Tail(lines))

SearchReturned ==
    LET v == View(pool[1], heap)
        lms == v.line_matches
    IN  /\ \A n \in 1..Len(sonnet.lines) :
              (\E k \in 1..Len(lms) : lms[k].line_no = n) <=> Matches(query, sonnet.lines[n])
        /\ \A k \in 1..Len(lms) : lms[k].line_no \in 1..Len(sonnet.lines)
        /\ \A k \in 1..(Len(lms) - 1) : lms[k].line_no < lms[k + 1].line_no
        /\ v.matches = Recount(v)
        /\ v.matches = NumOccurrences(query, sonnet.title)
                         + SumOccurrences(query, sonnet.lines)

\* C2: search_sonnet(sonnet, query) returns a result with a line match for
\* line n (1-based) exactly when the lowercased query occurs in line n, the
\* line matches in ascending line_no without repetition, and matches equal
\* to the number of title spans plus the spans of all line matches; the
\* sonnet is left as it was.
C2_SearchResult ==
    [][(pc = "call" /\ pc' = "return") => (sonnet' = sonnet /\ SearchReturned')]_vars

\* A search whose second line matches and whose first does not, found only
\* through lowercasing.
C2_Witness ==
    /\ pc = "return"
    /\ Len(sonnet.lines) = 2
    /\ LET lms == pool[1].line_matches
       IN  Len(lms) = 1 /\ lms[1].line_no = 2 /\ Len(heap[lms[1].spans]) = 2
    /\ query # Lower(query)
    /\ pool[1].matches > 2

(***************************************************************************)
(* sorted(): insertion sorts, of spans by (start, end) and of line matches *)
(* by line_no (stable, as Python's sort is).                               *)
(***************************************************************************)
SpanLeq(x, y) == x[1] < y[1] \/ (x[1] = y[1] /\ x[2] <= y[2])

RECURSIVE InsertSpan(_, _)
InsertSpan(sorted, x) ==
    IF sorted = <<>> THEN <<x>>
    ELSE IF SpanLeq(sorted[Len(sorted)], x) THEN Append(sorted, x)
    ELSE Append(InsertSpan(SubSeq(sorted, 1, Len(sorted) - 1), x), sorted[Len(sorted)])

RECURSIVE SortSpans(_)
SortSpans(s) ==
    IF s = <<>> THEN <<>>
    ELSE InsertSpan(SortSpans(SubSeq(s, 1, Len(s) - 1)), s[Len(s)])

RECURSIVE InsertLine(_, _)
InsertLine(sorted, lm) ==
    IF sorted = <<>> THEN <<lm>>
    ELSE IF sorted[Len(sorted)].line_no <= lm.line_no THEN Append(sorted, lm)
    ELSE Append(InsertLine(SubSeq(sorted, 1, Len(sorted) - 1), lm), sorted[Len(sorted)])

RECURSIVE SortLines(_)
SortLines(s) ==
    IF s = <<>> THEN <<>>
    ELSE InsertLine(SortLines(SubSeq(s, 1, Len(s) - 1)), s[Len(s)])

(***************************************************************************)
(* combine_results (app.py) and SearchResult.combine_with (models.py).     *)
(* A dict keyed by line_no is the sequence of its values in insertion      *)
(* order.                                                                  *)
(***************************************************************************)
HasLine(d, ln) == \E k \in 1..Len(d) : d[k].line_no = ln
IndexOfLine(d, ln) == CHOOSE k \in 1..Len(d) : d[k].line_no = ln

\* d[lm.line_no] = lm
DictPut(d, lm) ==
    IF HasLine(d, lm.line_no)
    THEN [d EXCEPT ![IndexOfLine(d, lm.line_no)] = lm]
    ELSE Append(d, lm)

\* The copy's matches are left as result1's: the sum is never assigned.
combined_matches_not_added(r1, r2) == r1.matches

\* result1["matches"] + result2["matches"]
combined_matches(r1, r2) == r1.matches + r2.matches

\* The concatenation is stored as it is, without sorted().
combined_title_spans_unsorted(r1, r2, h) == h[r1.title_spans] \o h[r2.title_spans]

\* sorted(result1["title_spans"] + result2["title_spans"])
combined_title_spans(r1, r2, h) == SortSpans(h[r1.title_spans] \o h[r2.title_spans])

\* {lm["line_no"]: dict(lm) for lm in result1["line_matches"]}: each value is
\* a new record that names the same span list as lm.
RECURSIVE dict_lines(_, _)
dict_lines(lms, d) ==
    IF lms = <<>> THEN d ELSE dict_lines(Tail(lms), DictPut(d, Head(lms)))

\* A line of both results takes result2's line match in place of result1's:
\* lines_by_no[ln] = dict(lm) in both branches.
RECURSIVE merge_dict_lines_overwrite(_, _)
merge_dict_lines_overwrite(lms, st) ==
    IF lms = <<>> THEN st
    ELSE merge_dict_lines_overwrite(Tail(lms),
            [d |-> DictPut(st.d, Head(lms)), heap |-> st.heap])

\* The loop over result2["line_matches"]; st is [d, heap].
RECURSIVE merge_dict_lines(_, _)
merge_dict_lines(lms, st) ==
    IF lms = <<>> THEN st
    ELSE LET lm == Head(lms)
             ln == lm.line_no
         IN  merge_dict_lines(Tail(lms),
                IF HasLine(st.d, ln)
                THEN LET addr == st.d[IndexOfLine(st.d, ln)].spans
                     IN  [d |-> st.d,
                          heap |-> [st.heap EXCEPT ![addr] = st.heap[addr] \o st.heap[lm.spans]]]
                ELSE [d |-> DictPut(st.d, lm), heap |-> st.heap])

\* Returns [result, heap].  result1.copy() is a new dict; its title_spans and
\* line_matches are replaced by new lists before it is returned.
combine_results(r1, r2, h) ==
    LET h1 == Alloc(h, combined_title_spans(r1, r2, h))
        lines_by_no == dict_lines(r1.line_matches, <<>>)
        st == merge_dict_lines(r2.line_matches, [d |-> lines_by_no, heap |-> h1])
    IN  [result |-> [title |-> r1.title,
                     title_spans |-> NewAddr(h),
                     line_matches |-> SortLines(st.d),
                     matches |-> combined_matches(r1, r2)],
         heap |-> st.heap]

\* {lm.line_no: lm.copy() for lm in self.line_matches}: LineMatch.copy()
\* allocates list(self.spans); st is [d, heap].
RECURSIVE copy_lines(_, _)
copy_lines(lms, st) ==
    IF lms = <<>> THEN st
    ELSE LET lm == Head(lms)
         IN  copy_lines(Tail(lms),
                [d |-> DictPut(st.d, [lm EXCEPT !.spans = NewAddr(st.heap)]),
                 heap |-> Alloc(st.heap, st.heap[lm.spans])])

\* The loop over other.line_matches; st is [d, heap].
RECURSIVE merge_copied_lines(_, _)
merge_copied_lines(lms, st) ==
    IF lms = <<>> THEN st
    ELSE LET lm == Head(lms)
             ln == lm.line_no
         IN  merge_copied_lines(Tail(lms),
                IF HasLine(st.d, ln)
                THEN LET addr == st.d[IndexOfLine(st.d, ln)].spans
                     IN  [d |-> st.d,
                          heap |-> [st.heap EXCEPT ![addr] = st.heap[addr] \o st.heap[lm.spans]]]
                ELSE [d |-> DictPut(st.d, [lm EXCEPT !.spans = NewAddr(st.heap)]),
                      heap |-> Alloc(st.heap, st.heap[lm.spans])])

\* Returns [result, heap].  The lists self.copy() allocates are replaced
\* before the result is returned and are not kept in the heap.
combine_with(self, other, h) ==
    LET h1 == Alloc(h, combined_title_spans(self, other, h))
        copied == copy_lines(self.line_matches, [d |-> <<>>, heap |-> h1])
        st == merge_copied_lines(other.line_matches, copied)
    IN  [result |-> [title |-> self.title,
                     title_spans |-> NewAddr(h),
                     line_matches |-> SortLines(st.d),
                     matches |-> combined_matches(self, other)],
         heap |-> st.heap]

(***************************************************************************)
(* Specification of combinations: results of one sample sonnet for words   *)
(* of a vocabulary, and combinations of any two results alive (a result    *)
(* with itself, and a combination as input of a later one, included).      *)
(* pc tells the representation in use: the dicts of app.py or the objects  *)
(* of models.py.                                                           *)
(***************************************************************************)
MaxPool == 4

SampleSonnets ==
    { [title |-> <<"A", "b">>, lines |-> << <<"a", "A", "a">>, <<"b">> >>],
      [title |-> <<"b">>,      lines |-> << <<"b", "a">> >>],
      [title |-> <<>>,         lines |-> << <<"b">>, <<"b", "b">> >>] }

Vocabulary == { <<"A">>, <<"b">>, <<"c">> }

InitCombine ==
    /\ pc \in {"dicts", "objects"}
    /\ heap = <<>>
    /\ sonnet \in SampleSonnets
    /\ query = <<>>
    /\ IdleStrings /\ IdleCombine /\ IdleMain

SearchFor(q) ==
    /\ Len(pool) < MaxPool
    /\ LET r == search_sonnet(sonnet, q, heap)
       IN  /\ pool' = Append(pool, r.result)
           /\ heap' = r.heap
    /\ query' = q
    /\ result1' = 0 /\ result2' = 0
    /\ UNCHANGED <<pc, text, pattern, spans, marked, sonnet, mainVars>>

CombineResults(k1, k2) ==
    /\ pc = "dicts"
    /\ Len(pool) < MaxPool
    /\ LET r == combine_results(pool[k1], pool[k2], heap)
       IN  /\ pool' = Append(pool, r.result)
           /\ heap' = r.heap
    /\ result1' = k1 /\ result2' = k2
    /\ UNCHANGED <<pc, text, pattern, spans, marked, searchVars, mainVars>>

CombineWith(k1, k2) ==
    /\ pc = "objects"
    /\ Len(pool) < MaxPool
    /\ LET r == combine_with(pool[k1], pool[k2], heap)
       IN  /\ pool' = Append(pool, r.result)
           /\ heap' = r.heap
    /\ result1' = k1 /\ result2' = k2
    /\ UNCHANGED <<pc, text, pattern, spans, marked, searchVars, mainVars>>

NextCombine ==
    \/ \E q \in Vocabulary : SearchFor(q)
    \/ \E k1, k2 \in 1..Len(pool) : CombineResults(k1, k2)
    \/ \E k1, k2 \in 1..Len(pool) : CombineWith(k1, k2)

SpecCombine == InitCombine /\ [][NextCombine]_vars

\* A step that is a call of combine_results or combine_with: the new last
\* element of pool is what it returned, for the inputs pool[result1'] and
\* pool[result2'] as they were before the call.
CombineStep == result1' # 0 /\ Len(pool') = Len(pool) + 1
InputA == View(pool[result1'], heap)
InputB == View(pool[result2'], heap)
Output == View(pool'[Len(pool')], heap')

\* How often x occurs in the sequence s.
RECURSIVE Count(_, _)
Count(x, s) ==
    IF s = <<>> THEN 0 ELSE (IF Head(s) = x THEN 1 ELSE 0) + Count(x, Tail(s))
Range(s) == {s[k] : k \in 1..Len(s)}

LineNos(v) == {v.line_matches[k].line_no : k \in 1..Len(v.line_matches)}
LineOf(v, ln) == v.line_matches[CHOOSE k \in 1..Len(v.line_matches) :
                                    v.line_matches[k].line_no = ln]
SpansOfLine(v, ln) == IF ln \in LineNos(v) THEN LineOf(v, ln).spans ELSE <<>>

\* C3: the matches of combine(a, b) are a.matches + b.matches and nothing is
\* deduplicated: every span is in the result, in the title and on every
\* line, as often as in a plus as often as in b; so combine(a, a) has twice
\* a's matches and twice a's spans in the title and on every line.
C3_CombineAdds ==
    [][CombineStep =>
        /\ Output.matches = InputA.matches + InputB.matches
        /\ \A x \in Range(InputA.title_spans) \cup Range(InputB.title_spans) :
              Count(x, Output.title_spans)
                = Count(x, InputA.title_spans) + Count(x, InputB.title_spans)
        /\ Len(Output.title_spans) = Len(InputA.title_spans) + Len(InputB.title_spans)
        /\ \A ln \in LineNos(InputA) \cup LineNos(InputB) :
              /\ Len(SpansOfLine(Output, ln))
                   = Len(SpansOfLine(InputA, ln)) + Len(SpansOfLine(InputB, ln))
              /\ \A x \in Range(SpansOfLine(InputA, ln)) \cup Range(SpansOfLine(InputB, ln)) :
                    Count(x, SpansOfLine(Output, ln))
                      = Count(x, SpansOfLine(InputA, ln)) + Count(x, SpansOfLine(InputB, ln))
        /\ result1' = result2' =>
              /\ Output.matches = 2 * InputA.matches
              /\ Recount(Output) = 2 * Recount(InputA)
      ]_vars

\* A result with spans in the title and on a line has been combined with
\* itself.
C3_Witness ==
    /\ result1 # 0 /\ result1 = result2
    /\ pool[Len(pool)].matches >= 4
    /\ Len(heap[pool[Len(pool)].title_spans]) >= 2
    /\ pool[Len(pool)].line_matches # <<>>

\* C4: combine(a, b) has as title_spans the spans of a and of b together,
\* sorted ascending by (start, end), and as line_matches one line match per
\* line number of a or of b, ascending by line_no; a line of both carries a's
\* spans followed by b's, a line of one of them that input's spans.
C4_CombineStructure ==
    [][CombineStep =>
        /\ \A k \in 1..(Len(Output.title_spans) - 1) :
              SpanLeq(Output.title_spans[k], Output.title_spans[k + 1])
        /\ Len(Output.title_spans) = Len(InputA.title_spans) + Len(InputB.title_spans)
        /\ \A x \in Range(Output.title_spans) :
              Count(x, Output.title_spans)
                = Count(x, InputA.title_spans) + Count(x, InputB.title_spans)
        /\ LineNos(Output) = LineNos(InputA) \cup LineNos(InputB)
        /\ \A k \in 1..(Len(Output.line_matches) - 1) :
              Output.line_matches[k].line_no < Output.line_matches[k + 1].line_no
        /\ \A ln \in LineNos(Output) :
              SpansOfLine(Output, ln) = SpansOfLine(InputA, ln) \o SpansOfLine(InputB, ln)
      ]_vars

\* The result of a combination has a title whose spans come from both
\* inputs, and a line of both inputs whose spans are a's followed by b's and
\* so not in ascending order.
C4_Witness ==
    /\ result1 # 0 /\ result1 # result2
    /\ LET c == View(pool[Len(pool)], heap)
       IN  /\ Len(c.title_spans) >= 2
           /\ Len(c.line_matches) >= 2
           /\ \E k \in 1..Len(c.line_matches) :
                 \E j \in 1..(Len(c.line_matches[k].spans) - 1) :
                    ~SpanLeq(c.line_matches[k].spans[j], c.line_matches[k].spans[j + 1])

\* C10: a call of combine leaves every result alive before it, its inputs
\* and the inputs of earlier calls among them, as it was: the same
\* title_spans, matches and spans of every line match.
C10_InputsUnchanged ==
    [][CombineStep => \A k \in 1..Len(pool) : View(pool'[k], heap') = View(pool[k], heap)]_vars

\* The same, of SearchResult.combine_with alone.
CombineWithLeavesInputs ==
    [][(CombineStep /\ pc = "objects") =>
          \A k \in 1..Len(pool) : View(pool'[k], heap') = View(pool[k], heap)]_vars

\* No span list of the result of combine_with is a list of a result that was
\* alive before the call.
Addresses(r) == {r.title_spans} \cup {r.line_matches[k].spans : k \in 1..Len(r.line_matches)}
CombineWithSharesNothing ==
    [][(CombineStep /\ pc = "objects") =>
          \A k \in 1..Len(pool) : Addresses(pool'[Len(pool')]) \cap Addresses(pool[k]) = {}]_vars

(***************************************************************************)
(* ansi_highlight.  "ESC" stands for the character \033.                   *)
(***************************************************************************)
HighlightOn == <<"ESC", "[", "4", "3", "m", "ESC", "[", "3", "0", "m">>
HighlightOff == <<"ESC", "[", "0", "m">>

Max(x, y) == IF x >= y THEN x ELSE y

\* Only spans that overlap are merged: s < current_end.
RECURSIVE merge_overlapping_only(_, _, _)
merge_overlapping_only(rest, current, merged) ==
    IF rest = <<>> THEN Append(merged, current)
    ELSE LET s == Head(rest)[1]
             e == Head(rest)[2]
         IN  IF s < current[2]
             THEN merge_overlapping_only(Tail(rest), <<current[1], Max(current[2], e)>>, merged)
             ELSE merge_overlapping_only(Tail(rest), <<s, e>>, Append(merged, current))

\* The loop over spans[1:], and the append after it; current is
\* (current_start, current_end).
RECURSIVE merge_loop(_, _, _)
merge_loop(rest, current, merged) ==
    IF rest = <<>> THEN Append(merged, current)
    ELSE LET s == Head(rest)[1]
             e == Head(rest)[2]
         IN  IF s <= current[2]
             THEN merge_loop(Tail(rest), <<current[1], Max(current[2], e)>>, merged)
             ELSE merge_loop(Tail(rest), <<s, e>>, Append(merged, current))

\* The loop over merged, and the append of text[i:] after it.
RECURSIVE build_loop(_, _, _, _)
build_loop(t, merged, k, out) ==
    IF merged = <<>> THEN out \o Slice(t, k, Len(t))
    ELSE LET s == Head(merged)[1]
             e == Head(merged)[2]
         IN  build_loop(t, Tail(merged), e,
                out \o Slice(t, k, s) \o HighlightOn \o Slice(t, s, e) \o HighlightOff)

ansi_highlight(t, sp) ==
    IF sp = <<>> THEN t
    ELSE LET sorted == SortSpans(sp)
             merged == merge_loop(Tail(sorted), Head(sorted), <<>>)
         IN  build_loop(t, merged, 0, <<>>)

(***************************************************************************)
(* Specification of one call of ansi_highlight: a text and a list of spans *)
(* within it, in any order.  ansi_highlight only slices the text, so there *)
(* is one text of each length, "abAabA..." cut to it.                      *)
(***************************************************************************)
MaxMarkedLen == 4
MaxSpans == 3

TextOfLen(n) == [k \in 1..n |-> IF k % 3 = 1 THEN "a" ELSE IF k % 3 = 2 THEN "b" ELSE "A"]

SpansWithin(n) == {<<s, e>> : s \in 0..n, e \in 0..n} \cap {x \in (0..n) \X (0..n) : x[1] < x[2]}

InitHighlight ==
    /\ pc = "call"
    /\ heap = <<>>
    /\ text \in {TextOfLen(n) : n \in 0..MaxMarkedLen}
    /\ spans \in UNION {[1..k -> SpansWithin(Len(text))] : k \in 0..MaxSpans}
    /\ pattern = <<>> /\ marked = <<>>
    /\ IdleSearch /\ IdleCombine /\ IdleMain

Highlight ==
    /\ pc = "call"
    /\ marked' = ansi_highlight(text, spans)
    /\ pc' = "return"
    /\ UNCHANGED <<heap, text, pattern, spans, searchVars, combineVars, mainVars>>

SpecHighlight == InitHighlight /\ [][Highlight]_vars

\* Reads a highlighted string back: the characters outside the escape
\* sequences, and the regions <<start, end>> of them between a highlight-on
\* and the next reset.  st is [plain, regions, open].
RECURSIVE ReadMarked(_, _, _)
ReadMarked(out, k, st) ==
    IF k > Len(out) THEN st
    ELSE IF out[k] # "ESC"
         THEN ReadMarked(out, k + 1, [st EXCEPT !.plain = Append(@, out[k])])
    ELSE IF out[k + 2] = "0"
         THEN ReadMarked(out, k + Len(HighlightOff),
                 [st EXCEPT !.regions = Append(@, <<st.open, Len(st.plain)>>)])
    ELSE ReadMarked(out, k + Len(HighlightOn), [st EXCEPT !.open = Len(st.plain)])

Unmarked(out) == ReadMarked(out, 1, [plain |-> <<>>, regions |-> <<>>, open |-> 0])

Covered(sp) == UNION {sp[k][1]..(sp[k][2] - 1) : k \in 1..Len(sp)}

\* C9: ansi_highlight(text, spans) marks exactly the positions some span
\* covers, as regions in ascending order with at least one unmarked
\* character between one region and the next; two spans that overlap or
\* touch are in one region; without the markers the output is text, and
\* with no spans it is text itself.
C9_HighlightMerges ==
    pc = "return" =>
        LET u == Unmarked(marked)
        IN  /\ u.plain = text
            /\ spans = <<>> => marked = text
            /\ Covered(u.regions) = Covered(spans)
            /\ \A k \in 1..(Len(u.regions) - 1) : u.regions[k][2] < u.regions[k + 1][1]
            /\ \A x, y \in Range(spans) :
                  (x[1] <= y[2] /\ y[1] <= x[2]) =>
                      \E k \in 1..Len(u.regions) :
                          /\ u.regions[k][1] <= x[1] /\ x[2] <= u.regions[k][2]
                          /\ u.regions[k][1] <= y[1] /\ y[2] <= u.regions[k][2]

\* Spans that only touch were merged into one region and a separate region
\* follows it.
C9_Witness ==
    /\ pc = "return"
    /\ \E x, y \in Range(spans) : x[2] = y[1]
    /\ Len(Unmarked(marked).regions) = 2
    /\ Len(spans) = 3

(***************************************************************************)
(* main: the evaluation of one query, word by word and sonnet by sonnet.   *)
(* pc = "word" is the head of the loop over words, pc = "merge" the head   *)
(* of the loop over range(len(combined_results)), pc = "done" the state    *)
(* after print_results.  Nothing in the loop raises: no step leads to      *)
(* pc = "raised".                                                          *)
(***************************************************************************)
MaxSonnets == 2
MaxWords == 3

SearchModes == {"AND", "OR"}
OtherModes == {"XOR"}

\* The results are collected in front of the earlier ones, so in the reverse
\* order of the sonnets.
RECURSIVE search_all_reversed(_, _, _)
search_all_reversed(ss, word, st) ==
    IF ss = <<>> THEN st
    ELSE LET r == search_sonnet(Head(ss), word, st.heap)
         IN  search_all_reversed(Tail(ss), word,
                [results |-> <<r.result>> \o st.results, heap |-> r.heap])

\* [search_sonnet(s, word) for s in sonnets]; st is [results, heap]
RECURSIVE search_all(_, _, _)
search_all(ss, word, st) ==
    IF ss = <<>> THEN st
    ELSE LET r == search_sonnet(Head(ss), word, st.heap)
         IN  search_all(Tail(ss), word,
                [results |-> Append(st.results, r.result), heap |-> r.heap])

\* Only the new word's result is looked at.
only_result_matches(combined_result, result) == result.matches > 0

\* combined_result["matches"] > 0 and result["matches"] > 0
both_match(combined_result, result) == combined_result.matches > 0 /\ result.matches > 0

\* The spans are dropped together with the count.
no_match_cleared(combined_result) ==
    [combined_result EXCEPT !.matches = 0, !.line_matches = <<>>]

\* combined_result["matches"] = 0
no_match(combined_result) == [combined_result EXCEPT !.matches = 0]

InitMain(modes) ==
    /\ pc = "word"
    /\ heap = <<>>
    /\ sonnets \in UNION {[1..k -> SampleSonnets] : k \in 0..MaxSonnets}
    /\ words \in UNION {[1..k -> Vocabulary] : k \in 1..MaxWords}
    /\ search_mode \in modes
    /\ w = 1
    /\ results = <<>> /\ combined_results = <<>> /\ i = 0 /\ matched = <<>>
    /\ IdleStrings /\ IdleSearch /\ IdleCombine

\* One pass of "for word in words" up to the inner loop: the searches, and
\* the first results taken as the accumulator while it is empty.
SearchWord ==
    /\ pc = "word"
    /\ w <= Len(words)
    /\ LET st == search_all(sonnets, words[w], [results |-> <<>>, heap |-> heap])
       IN  /\ results' = st.results
           /\ heap' = st.heap
           /\ IF combined_results = <<>>
              THEN /\ combined_results' = st.results
                   /\ w' = w + 1
                   /\ UNCHANGED <<pc, i>>
              ELSE /\ i' = 0
                   /\ pc' = "merge"
                   /\ UNCHANGED <<combined_results, w>>
    /\ UNCHANGED <<text, pattern, spans, marked, searchVars, combineVars,
                   sonnets, search_mode, words, matched>>

\* One pass of "for i in range(len(combined_results))"; after the last one
\* the loop over words goes on.
MergeStep ==
    /\ pc = "merge"
    /\ i < Len(combined_results)
    /\ LET combined_result == combined_results[i + 1]
           result == results[i + 1]
       IN  IF search_mode = "AND"
           THEN IF both_match(combined_result, result)
                THEN LET r == combine_results(combined_result, result, heap)
                     IN  /\ combined_results' = [combined_results EXCEPT ![i + 1] = r.result]
                         /\ heap' = r.heap
                ELSE /\ combined_results' =
                           [combined_results EXCEPT ![i + 1] = no_match(combined_result)]
                     /\ UNCHANGED heap
           ELSE IF search_mode = "OR"
                THEN LET r == combine_results(combined_result, result, heap)
                     IN  /\ combined_results' = [combined_results EXCEPT ![i + 1] = r.result]
                         /\ heap' = r.heap
                ELSE UNCHANGED <<combined_results, heap>>
    /\ IF i + 1 < Len(combined_results)
       THEN i' = i + 1 /\ UNCHANGED <<pc, w>>
       ELSE i' = i + 1 /\ pc' = "word" /\ w' = w + 1
    /\ UNCHANGED <<text, pattern, spans, marked, searchVars, combineVars,
                   sonnets, search_mode, words, results, matched>>

\* print_results: matched = [r for r in results if r["matches"] > 0]
HasMatches(r) == r.matches > 0
PrintResults ==
    /\ pc = "word"
    /\ w > Len(words)
    /\ matched' = SelectSeq(combined_results, HasMatches)
    /\ pc' = "done"
    /\ UNCHANGED <<heap, text, pattern, spans, marked, searchVars, combineVars,
                   sonnets, search_mode, words, w, results, combined_results, i>>

Next == SearchWord \/ MergeStep \/ PrintResults

\* The program: config.search_mode is "AND" or "OR" (Configuration.update
\* and the :search-mode command accept nothing else).
Init == InitMain(SearchModes)
Spec == Init /\ [][Next]_vars

\* The loop given any search_mode string.
InitAnyMode == InitMain(SearchModes \cup OtherModes)
SpecAnyMode == InitAnyMode /\ [][Next]_vars

\* The word occurs, lowercased, in the title or in a line of the sonnet.
WordMatches(word, s) ==
    Matches(word, s.title) \/ \E n \in 1..Len(s.lines) : Matches(word, s.lines[n])

\* How many words have been folded into the accumulated result of sonnet d.
Folded(d) ==
    IF combined_results = <<>> THEN 0
    ELSE IF pc = "merge" /\ d <= i THEN w
    ELSE w - 1

Counts(d) == combined_results[d].matches > 0

FoldCounts ==
    \A d \in 1..Len(combined_results) :
        /\ search_mode = "AND" =>
              (Counts(d) <=> \A t \in 1..Folded(d) : WordMatches(words[t], sonnets[d]))
        /\ search_mode = "OR" =>
              (Counts(d) <=> \E t \in 1..Folded(d) : WordMatches(words[t], sonnets[d]))
        /\ pc = "done" => Len(matched) = Cardinality({e \in 1..Len(combined_results) : Counts(e)})

\* C6: after any number of words folded into a sonnet's result, the sonnet
\* counts (matches > 0) in AND mode exactly when every one of these words
\* matches it, and in OR mode exactly when one of them does; in AND mode an
\* accumulated result with matches = 0 has matches = 0 after every later
\* step.
C6_AndAllOrAny ==
    [][ /\ FoldCounts'
        /\ search_mode = "AND" =>
              \A d \in 1..Len(combined_results) :
                  combined_results[d].matches = 0 => combined_results'[d].matches = 0
      ]_vars

\* Three words in AND mode: a sonnet that the second word does not match and
\* the third does is out, beside one that all three match.
C6_Witness ==
    /\ pc = "done" /\ search_mode = "AND" /\ Len(words) = 3
    /\ \E d, e \in 1..Len(sonnets) :
          /\ WordMatches(words[1], sonnets[d])
          /\ ~WordMatches(words[2], sonnets[d])
          /\ WordMatches(words[3], sonnets[d])
          /\ ~Counts(d)
          /\ Counts(e)

\* The fields of an accumulated result other than matches, by value.
SpansOf(r, h) == [title_spans |-> View(r, h).title_spans,
                  line_matches |-> View(r, h).line_matches]
FirstWordAlone(d) ==
    LET r == search_sonnet(sonnets[d], words[1], <<>>) IN SpansOf(r.result, r.heap)

\* C7: in AND mode a pass of the inner loop in which the accumulated result
\* or the word's result has matches = 0 sets the accumulated matches to 0
\* and leaves its title_spans and line_matches as they were; so after two
\* words of which the second matches no sonnet every result has matches = 0
\* and the title_spans and line_matches of the first word.
C7_AndZeroKeepsSpans ==
    [][ /\ (/\ pc = "merge" /\ search_mode = "AND"
            /\ (combined_results[i + 1].matches = 0 \/ results[i + 1].matches = 0))
           => /\ combined_results'[i + 1].matches = 0
              /\ SpansOf(combined_results'[i + 1], heap') = SpansOf(combined_results[i + 1], heap)
        /\ (/\ pc' = "done" /\ search_mode = "AND" /\ Len(words) = 2
            /\ \A d \in 1..Len(sonnets) : ~WordMatches(words[2], sonnets[d]))
           => \A d \in 1..Len(sonnets) :
                 /\ combined_results'[d].matches = 0
                 /\ SpansOf(combined_results'[d], heap') = FirstWordAlone(d)
      ]_vars

\* Two words in AND mode, the second in no sonnet: a result with matches = 0
\* still has the title spans and line matches of the first word.
C7_Witness ==
    /\ pc = "done" /\ search_mode = "AND" /\ Len(words) = 2
    /\ \A d \in 1..Len(sonnets) : ~WordMatches(words[2], sonnets[d])
    /\ \E d \in 1..Len(sonnets) :
          /\ combined_results[d].matches = 0
          /\ heap[combined_results[d].title_spans] # <<>>
          /\ combined_results[d].line_matches # <<>>

\* C8: every accumulated result has matches equal to the number of its title
\* spans plus the spans of its line matches, except, in AND mode only, a
\* result of a sonnet that one of the folded words does not match, whose
\* matches is 0.
C8_MatchesIsSpanCount ==
    \A d \in 1..Len(combined_results) :
        LET v == View(combined_results[d], heap)
        IN  \/ v.matches = Recount(v)
            \/ /\ search_mode = "AND"
               /\ v.matches = 0
               /\ \E t \in 1..Folded(d) : ~WordMatches(words[t], sonnets[d])

\* OR mode, three words folded: a sonnet that one word does not match has
\* the spans of the others, counted; and AND mode, a zeroed result with
\* spans left.
C8_Witness ==
    /\ pc = "done" /\ search_mode = "OR" /\ Len(words) = 3
    /\ \E d \in 1..Len(sonnets) :
          /\ ~WordMatches(words[2], sonnets[d])
          /\ combined_results[d].matches >= 4
          /\ combined_results[d].matches = Recount(View(combined_results[d], heap))

\* The result is one of sonnet s: it has its title, and each of its line
\* matches has the number and the text of one of its lines.
OriginatesFrom(r, s) ==
    /\ r.title = s.title
    /\ \A k \in 1..Len(r.line_matches) :
          /\ r.line_matches[k].line_no \in 1..Len(s.lines)
          /\ r.line_matches[k].text = s.lines[r.line_matches[k].line_no]

\* C11: once the first word is folded there is one accumulated result per
\* sonnet, in the order of the sonnets, result d being one of sonnet d with
\* its title; and in every pass of the inner loop the accumulated result and
\* the word's result handed to combine_results are both of the sonnet of
\* that pass.
C11_OneResultPerSonnet ==
    /\ w > 1 =>
          /\ Len(combined_results) = Len(sonnets)
          /\ \A d \in 1..Len(sonnets) : OriginatesFrom(combined_results[d], sonnets[d])
    /\ pc = "done" => \A k \in 1..Len(matched) : \E d \in 1..Len(sonnets) :
                          matched[k] = combined_results[d]
    /\ pc = "merge" =>
          /\ Len(results) = Len(sonnets)
          /\ i < Len(sonnets)
          /\ OriginatesFrom(combined_results[i + 1], sonnets[i + 1])
          /\ OriginatesFrom(results[i + 1], sonnets[i + 1])

\* Two different sonnets and two words in OR mode: both accumulated results
\* come out of combine_results, each with line matches of its own sonnet.
C11_Witness ==
    /\ pc = "done" /\ search_mode = "OR" /\ Len(words) = 2 /\ words[1] # words[2]
    /\ Len(sonnets) = 2 /\ sonnets[1].title # sonnets[2].title
    /\ \A d \in 1..2 :
          /\ WordMatches(words[1], sonnets[d]) /\ WordMatches(words[2], sonnets[d])
          /\ combined_results[d].line_matches # <<>>

=============================================================================
